---------------------------- MODULE Spec2Model ----------------------------
(***************************************************************************)
(* Model of class Vector (C02ObjectOrientedProgramming/Reinforcement/      *)
(* r14.py).                                                                *)
(*                                                                         *)
(* A Vector object owns one attribute, _coords, a reference to a Python    *)
(* list.  The caller holds Vector objects through the program variables of *)
(* Names.  The heap is modelled in two levels, so that two Vectors sharing *)
(* one list is a state the model can express:                              *)
(*    coords[n]  the list object that the Vector bound to n refers to,     *)
(*    mem[l]     the items of list object l.                               *)
(* Coordinates are Python ints (unbounded in the code, capped by Val in    *)
(* the guards).  Assertions are enabled (the interpreter's default).       *)
(***************************************************************************)
EXTENDS Integers, Sequences, FiniteSets, TLC

\* Largest dimension of a Vector the model builds.
MaxLen == 2

\* Coordinate values the model stores.
Val == {-1, 0, 1}

\* Program variables of the caller (u, v as in the demonstration script).
Names == {"u", "v"}

\* List objects; "nil" marks a variable that is not bound to a Vector yet.
ListId == Names
Nil == "nil"

\* Indices tried by indexed reads and writes, from below -n to above n - 1.
Indices == (0 - (MaxLen + 1))..MaxLen

VARIABLES
    coords,   \* Vector._coords of the Vector each name is bound to
    mem,      \* items of each list object
    len0,     \* history: len() of each bound Vector when it was constructed
    last      \* the last operation: its name, the exception raised, its value

vars == <<coords, mem, len0, last>>

-----------------------------------------------------------------------------
(* Python values handed to the operations. *)

PyInt(i)    == [type |-> "int",      ref |-> "", items |-> <<>>, num |-> i]
PyList(s)   == [type |-> "list",     ref |-> "", items |-> s,    num |-> 0]
PyVector(n) == [type |-> "Vector",   ref |-> n,  items |-> <<>>, num |-> 0]
PyStr       == [type |-> "str",      ref |-> "wesh", items |-> <<>>, num |-> 0]
PyNone      == [type |-> "NoneType", ref |-> "", items |-> <<>>, num |-> 0]
PyFloat     == [type |-> "float",    ref |-> "3.5", items |-> <<>>, num |-> 0]

\* Plain Python lists the caller passes (as in [1, 2, 3, 4, 5] + u): of every
\* length, a 1 followed by zeros.
PlainLists == {[k \in 1..n |-> IF k = 1 THEN 1 ELSE 0] : n \in 0..MaxLen}

Bound == {n \in Names : coords[n] # Nil}

\* self._coords of the Vector bound to n.
Coords(n) == mem[coords[n]]

\* The items an operand yields to len() and to indexing.
Items(o) == IF o.type = "Vector" THEN Coords(o.ref) ELSE o.items

-----------------------------------------------------------------------------
(* Exceptions. *)

NoErr == [type |-> "None", msg |-> ""]
ValueError == [type |-> "ValueError", msg |-> "dimensions must agree"]
TypeErrorInit == [type |-> "TypeError", msg |-> "invalid parameter type"]
IndexErrorGet == [type |-> "IndexError", msg |-> "list index out of range"]
IndexErrorSet == [type |-> "IndexError", msg |-> "list assignment index out of range"]
AssertionError(t) == [type |-> "AssertionError", msg |-> "can't multiply Vector and <class '" \o t \o "'>"]

\* What the caller observes of an operation: its name, the variable holding
\* the Vector it was called on, the exception, the value returned (a bool as
\* the int it is), the text str() returned, the variable a returned Vector was
\* bound to, and, as history, the type of the argument of a constructor or
\* product call and the operands' lengths of a Vector * Vector product.
Outcome(op, self, err, ret) ==
    [op |-> op, self |-> self, err |-> err, ret |-> ret, text |-> <<>>,
     to |-> "", arg |-> "", lens |-> <<>>]

-----------------------------------------------------------------------------
(* The list operations self._coords[j] and self._coords[j] = val. *)

\* A negative index counts from the end.
NormIndex(n, j) == IF j < 0 THEN j + n ELSE j

InRange(n, j) == NormIndex(n, j) >= 0 /\ NormIndex(n, j) < n

\* Mutant: an index one past either end is accepted.
ListGetItemOffByOne(s, j) ==
    LET n == Len(s)
        i == NormIndex(n, j)
    IN  IF i >= 0 /\ i < n THEN [ok |-> TRUE, val |-> s[i + 1]]
        ELSE IF n > 0 /\ (i = n \/ i = 0 - 1) THEN [ok |-> TRUE, val |-> s[n]]
        ELSE [ok |-> FALSE, val |-> 0]

\* s[j]: the item, or ok = FALSE for IndexError.
ListGetItem(s, j) ==
    IF InRange(Len(s), j)
    THEN [ok |-> TRUE, val |-> s[NormIndex(Len(s), j) + 1]]
    ELSE [ok |-> FALSE, val |-> 0]

\* Mutant: a negative index is not counted from the end but clamped to 0.
ListSetItemClamp(s, j, x) ==
    LET n == Len(s)
        i == IF j < 0 THEN 0 ELSE j
    IN  IF i < n THEN [ok |-> TRUE, val |-> [s EXCEPT ![i + 1] = x]]
        ELSE [ok |-> FALSE, val |-> s]

\* Mutant: a write at index len(s) grows the list.
ListSetItemGrow(s, j, x) ==
    LET n == Len(s)
        i == NormIndex(n, j)
    IN  IF i >= 0 /\ i < n THEN [ok |-> TRUE, val |-> [s EXCEPT ![i + 1] = x]]
        ELSE IF i = n THEN [ok |-> TRUE, val |-> Append(s, x)]
        ELSE [ok |-> FALSE, val |-> s]

\* s[j] = x: the list after the write, or ok = FALSE for IndexError.
ListSetItem(s, j, x) ==
    IF InRange(Len(s), j)
    THEN [ok |-> TRUE, val |-> [s EXCEPT ![NormIndex(Len(s), j) + 1] = x]]
    ELSE [ok |-> FALSE, val |-> s]

\* [0] * d: d zeros, none when d is negative.
Zeros(d) == [k \in 1..d |-> 0]

\* Iteration over an operand: a Vector defines no __iter__, so Python calls
\* __getitem__ with 0, 1, 2, ... until IndexError.
RECURSIVE IterFrom(_, _)
IterFrom(s, k) ==
    LET g == ListGetItem(s, k)
    IN  IF g.ok THEN <<g.val>> \o IterFrom(s, k + 1) ELSE <<>>

Iter(s) == IterFrom(s, 0)


-----------------------------------------------------------------------------
(* The pure part of each method: the exception raised, or the new items. *)

Raise(e) == [err |-> e, items |-> <<>>]
Return(s) == [err |-> NoErr, items |-> s]

\* Vector.__init__: zeros for an int, a copy of the items of an iterable (a
\* Vector is iterated through __getitem__), TypeError for anything else.
VectorInit(d) ==
    IF d.type = "int" THEN Return(Zeros(d.num))
    ELSE IF d.type = "Vector" THEN Return(Iter(Coords(d.ref)))
    ELSE IF d.type = "list" THEN Return(d.items)
    ELSE Raise(TypeErrorInit)

\* Mutant: the loop reads other one position early (other[j - 1]).
RECURSIVE AddLoopShifted(_, _, _, _)
AddLoopShifted(result, self, other, j) ==
    IF j >= Len(self) THEN result
    ELSE AddLoopShifted(ListSetItem(result, j,
                            ListGetItem(self, j).val + ListGetItem(other, j - 1).val).val,
                        self, other, j + 1)

\* The loop of __add__: result[j] = self[j] + other[j] for j in range(len(self)).
RECURSIVE AddLoop(_, _, _, _)
AddLoop(result, self, other, j) ==
    IF j >= Len(self) THEN result
    ELSE AddLoop(ListSetItem(result, j,
                     ListGetItem(self, j).val + ListGetItem(other, j).val).val,
                 self, other, j + 1)

\* Mutant: no check of the lengths; the sum stops at the shorter operand, as
\* the product does.
VectorAddNoCheck(self, other) ==
    [err |-> NoErr,
     items |-> [k \in 1..(IF Len(self) < Len(other) THEN Len(self) ELSE Len(other)) |->
                  self[k] + other[k]]]

\* Vector.__add__ on the items of self and of other.
VectorAdd(self, other) ==
    IF Len(self) # Len(other) THEN Raise(ValueError)
    ELSE Return(AddLoop(VectorInit(PyInt(Len(self))).items, self, other, 0))

\* The loop of __sub__: result[j] = self[j] - other[j].
RECURSIVE SubLoop(_, _, _, _)
SubLoop(result, self, other, j) ==
    IF j >= Len(self) THEN result
    ELSE SubLoop(ListSetItem(result, j,
                     ListGetItem(self, j).val - ListGetItem(other, j).val).val,
                 self, other, j + 1)

\* Vector.__sub__.
VectorSub(self, other) ==
    IF Len(self) # Len(other) THEN Raise(ValueError)
    ELSE Return(SubLoop(VectorInit(PyInt(Len(self))).items, self, other, 0))

\* zip(self, other): pairs up to the shorter operand.
Zip(s, t) ==
    [k \in 1..(IF Len(s) < Len(t) THEN Len(s) ELSE Len(t)) |-> <<s[k], t[k]>>]

\* Mutant: the product checks the lengths as the sum does.
VectorMulStrict(self, x) ==
    IF x.type \notin {"float", "int", "Vector"} THEN [err |-> AssertionError(x.type), items |-> <<>>]
    ELSE IF x.type = "Vector"
         THEN IF Len(self) # Len(Items(x)) THEN [err |-> ValueError, items |-> <<>>]
              ELSE [err |-> NoErr, items |-> [k \in 1..Len(self) |-> self[k] * Items(x)[k]]]
         ELSE [err |-> NoErr, items |-> [k \in 1..Len(self) |-> self[k] * x.num]]

\* Vector.__mul__: the assertion on the operand's type, then the elementwise
\* product with a Vector or the scaling by a number.
VectorMul(self, x) ==
    IF x.type \notin {"float", "int", "Vector"} THEN Raise(AssertionError(x.type))
    ELSE IF x.type = "Vector"
         THEN LET z == Zip(Iter(self), Iter(Items(x)))
              IN  Return([k \in 1..Len(z) |-> z[k][1] * z[k][2]])
         ELSE LET it == Iter(self)
              IN  Return([k \in 1..Len(it) |-> it[k] * x.num])

\* Vector.__neg__.
VectorNeg(self) ==
    LET it == Iter(self)
    IN  Return([k \in 1..Len(it) |-> 0 - it[k]])

\* list < list: the first differing position decides, else the shorter is less.
RECURSIVE ListLt(_, _)
ListLt(s, t) ==
    IF s = <<>> \/ t = <<>> THEN Len(s) < Len(t)
    ELSE IF Head(s) # Head(t) THEN Head(s) < Head(t)
    ELSE ListLt(Tail(s), Tail(t))

ListLe(s, t) == s = t \/ ListLt(s, t)

\* A Python bool as the int it is.
PyBool(b) == IF b THEN 1 ELSE 0

\* str(list): '[' + repr of the items joined by ', ' + ']', one piece per token.
RECURSIVE Joined(_)
Joined(s) ==
    IF s = <<>> THEN <<>>
    ELSE IF Len(s) = 1 THEN <<ToString(s[1])>>
    ELSE <<ToString(s[1]), ", ">> \o Joined(Tail(s))

StrList(s) == <<"[">> \o Joined(s) \o <<"]">>

\* Vector.__str__: '<' + str(self._coords)[1:-1] + '>'.
VectorStr(self) ==
    LET t == StrList(self)
    IN  <<"<">> \o SubSeq(t, 2, Len(t) - 1) \o <<">">>

-----------------------------------------------------------------------------
(* Binding a new Vector to a program variable. *)

\* The location of the list a new Vector bound to r gets: the one r's previous
\* Vector gives up, unless another Vector still refers to it.
NewList(r) ==
    IF \A n \in Names \ {r} : coords[n] # r THEN r
    ELSE CHOOSE l \in ListId : \A n \in Names \ {r} : coords[n] # l

\* Mutant: Vector(v) keeps v's own list instead of copying it.
InitListShared(r, d) == IF d.type = "Vector" THEN coords[d.ref] ELSE NewList(r)

\* The list __init__ stores in self._coords: always one it has just built.
InitList(r, d) == NewList(r)

\* Mutant: the operation works on self and returns it.
ResultListInPlace(r, a) == coords[a]

\* The list of the Vector an arithmetic method returns: that of the Vector it
\* constructs (Vector(len(self)), Vector(<generator>)), never an operand's.
ResultList(r, a) == NewList(r)

InVal(s) == Len(s) <= MaxLen /\ \A k \in 1..Len(s) : s[k] \in Val

\* r = <new Vector with list l holding items>; the list r's previous Vector
\* held is reclaimed when nothing refers to it.
Bind(r, l, items, n0) ==
    /\ InVal(items)
    /\ len0' = [len0 EXCEPT ![r] = n0]
    /\ coords' = [coords EXCEPT ![r] = l]
    /\ mem' = [x \in ListId |->
                 IF x = l THEN items
                 ELSE IF \E n \in Names \ {r} : coords[n] = x THEN mem[x]
                 ELSE <<>>]

Unchanged == UNCHANGED <<coords, mem, len0>>

\* The outcome of a method that returns a new Vector, bound to r by the caller.
Finish(op, self, r, l, res, n0, arg, lens) ==
    IF res.err = NoErr
    THEN /\ last' = [Outcome(op, self, NoErr, <<>>) EXCEPT
                        !.to = r, !.arg = arg, !.lens = lens]
         /\ Bind(r, l, res.items, n0)
    ELSE /\ last' = Outcome(op, self, res.err, <<>>)
         /\ Unchanged

-----------------------------------------------------------------------------
(* The operations. *)

Init ==
    /\ coords = [n \in Names |-> Nil]
    /\ mem = [l \in ListId |-> <<>>]
    /\ len0 = [n \in Names |-> 0 - 1]
    /\ last = Outcome("start", "", NoErr, <<>>)

\* r = Vector(d)
Construct(r, d) ==
    /\ d.type = "Vector" => d.ref \in Bound
    /\ LET res == VectorInit(d)
       IN  Finish("init", "", r, InitList(r, d), res, Len(res.items), d.type, <<>>)

\* len(a)
VLen(a) ==
    /\ a \in Bound
    /\ Unchanged
    /\ last' = Outcome("len", a, NoErr, <<Len(Coords(a))>>)

\* a[j]
GetItem(a, j) ==
    /\ a \in Bound
    /\ Unchanged
    /\ LET g == ListGetItem(Coords(a), j)
       IN  last' = IF g.ok THEN Outcome("getitem", a, NoErr, <<g.val>>)
                   ELSE Outcome("getitem", a, IndexErrorGet, <<>>)

\* a[j] = x
SetItem(a, j, x) ==
    /\ a \in Bound
    /\ LET w == ListSetItem(Coords(a), j, x)
       IN  /\ mem' = [mem EXCEPT ![coords[a]] = w.val]
           /\ last' = IF w.ok THEN Outcome("setitem", a, NoErr, <<>>)
                      ELSE Outcome("setitem", a, IndexErrorSet, <<>>)
    /\ UNCHANGED <<coords, len0>>

\* r = a + o
Add(a, o, r) ==
    /\ a \in Bound
    /\ o.type = "Vector" => o.ref \in Bound
    /\ LET res == VectorAdd(Coords(a), Items(o))
       IN  Finish("add", a, r, ResultList(r, a), res, Len(Coords(a)), "", <<>>)

\* r = o + a with o a plain list: __radd__ returns self + other.
RAdd(a, o, r) ==
    /\ a \in Bound
    /\ LET res == VectorAdd(Coords(a), Items(o))
       IN  Finish("radd", a, r, ResultList(r, a), res, Len(Coords(a)), "", <<>>)

\* r = a - o
Sub(a, o, r) ==
    /\ a \in Bound
    /\ o.type = "Vector" => o.ref \in Bound
    /\ LET res == VectorSub(Coords(a), Items(o))
       IN  Finish("sub", a, r, ResultList(r, a), res, Len(Coords(a)), "", <<>>)

\* r = a * x
Mul(a, x, r) ==
    /\ a \in Bound
    /\ x.type = "Vector" => x.ref \in Bound
    /\ LET res == VectorMul(Coords(a), x)
       IN  Finish("mul", a, r, ResultList(r, a), res, Len(res.items), x.type,
                  IF x.type = "Vector" THEN <<Len(Coords(a)), Len(Items(x))>> ELSE <<>>)

\* r = x * a with x not a Vector: __rmul__ returns self * other.
RMul(a, x, r) ==
    /\ a \in Bound
    /\ LET res == VectorMul(Coords(a), x)
       IN  Finish("rmul", a, r, ResultList(r, a), res, Len(res.items), x.type, <<>>)

\* r = -a
Neg(a, r) ==
    /\ a \in Bound
    /\ LET res == VectorNeg(Coords(a))
       IN  Finish("neg", a, r, ResultList(r, a), res, Len(res.items), "", <<>>)

\* a == b
Eq(a, b) ==
    /\ a \in Bound /\ b \in Bound
    /\ Unchanged
    /\ last' = Outcome("eq", a, NoErr, <<PyBool(Coords(a) = Coords(b))>>)

\* a != b: not (a == b)
Ne(a, b) ==
    /\ a \in Bound /\ b \in Bound
    /\ Unchanged
    /\ last' = Outcome("ne", a, NoErr, <<PyBool(~(Coords(a) = Coords(b)))>>)

\* a < b
Lt(a, b) ==
    /\ a \in Bound /\ b \in Bound
    /\ Unchanged
    /\ last' = IF Len(Coords(a)) # Len(Coords(b))
               THEN Outcome("lt", a, ValueError, <<>>)
               ELSE Outcome("lt", a, NoErr, <<PyBool(ListLt(Coords(a), Coords(b)))>>)

\* a <= b
Le(a, b) ==
    /\ a \in Bound /\ b \in Bound
    /\ Unchanged
    /\ last' = IF Len(Coords(a)) # Len(Coords(b))
               THEN Outcome("le", a, ValueError, <<>>)
               ELSE Outcome("le", a, NoErr, <<PyBool(ListLe(Coords(a), Coords(b)))>>)

\* str(a)
Str(a) ==
    /\ a \in Bound
    /\ Unchanged
    /\ last' = [Outcome("str", a, NoErr, <<>>) EXCEPT !.text = VectorStr(Coords(a))]

\* Arguments the caller passes.
Dims == (0 - 1)..MaxLen
Vectors == {PyVector(n) : n \in Names}
Lists == {PyList(s) : s \in PlainLists}
Scalars == {PyInt(i) : i \in Val}
NonNumeric == {PyStr, PyNone}
NonIterable == {PyNone, PyFloat}

IntArgs == {PyInt(i) : i \in Dims}

\* The variable holding the Vector that arithmetic, comparison and str() are
\* called on.  The two variables are interchangeable and construction and
\* writes give each of them every content, so calling on Self with the other
\* operand in either variable covers every pair of operands.
Self == "u"

Next ==
    \/ \E r \in Names, d \in IntArgs \cup Lists \cup Vectors \cup NonIterable :
          Construct(r, d)
    \/ \E a \in Names : VLen(a)
    \/ \E a \in Names, j \in Indices : GetItem(a, j)
    \/ \E a \in Names, j \in Indices, x \in Val : SetItem(a, j, x)
    \/ \E o \in Vectors \cup Lists, r \in Names : Add(Self, o, r)
    \/ \E o \in Lists, r \in Names : RAdd(Self, o, r)
    \/ \E o \in Vectors, r \in Names : Sub(Self, o, r)
    \/ \E x \in Vectors \cup Scalars \cup NonNumeric, r \in Names : Mul(Self, x, r)
    \/ \E x \in Scalars \cup NonNumeric, r \in Names : RMul(Self, x, r)
    \/ \E r \in Names : Neg(Self, r)
    \/ \E b \in Names : Eq(Self, b)
    \/ \E b \in Names : Ne(Self, b)
    \/ \E b \in Names : Lt(Self, b)
    \/ \E b \in Names : Le(Self, b)
    \/ Str(Self)

\* A caller that only constructs, measures, reads and writes.
NextIndex ==
    \/ \E r \in Names, d \in IntArgs \cup Lists : Construct(r, d)
    \/ \E a \in Names : VLen(a)
    \/ \E a \in Names, j \in Indices : GetItem(a, j)
    \/ \E a \in Names, j \in Indices, x \in Val : SetItem(a, j, x)

Spec == Init /\ [][Next]_vars
SpecIndex == Init /\ [][NextIndex]_vars

-----------------------------------------------------------------------------
(* Properties.  In a step, last' tells the operation that ran, the variable  *)
(* self it was called on and the variable to its result was bound to; the    *)
(* remaining arguments are those for which the operation's action is the     *)
(* step taken.                                                               *)

ArithOps == {"add", "radd", "sub", "mul", "rmul", "neg"}

\* C1: every bound Vector has the length it had when it was constructed,
\* whatever operations have run since.
C1_LengthImmutable == \A n \in Bound : Len(Coords(n)) = len0[n]

\* A Vector of the largest dimension has been written to and read back.
C1_Witness ==
    /\ last.op = "getitem" /\ last.err = NoErr /\ last.ret # <<0>>
    /\ len0[last.self] = MaxLen

\* j lies outside [-n, n - 1].
OutOfRange(n, j) == j < 0 - n \/ j > n - 1

\* C2: an arithmetic operation leaves every Vector that stays bound (the
\* operands among them, a + a included) with the list and the coordinates it
\* had; the Vector it returns refers to a list no other Vector refers to; a
\* failed one changes nothing; and a later indexed write changes the
\* coordinates of the written Vector only.
C2_OperandsUnchanged ==
    [][/\ last'.op \in ArithOps =>
            /\ \A n \in Bound \ {last'.to} :
                  coords'[n] = coords[n] /\ Coords(n)' = Coords(n)
            /\ last'.err = NoErr =>
                  \A n \in Names \ {last'.to} : coords'[n] # coords'[last'.to]
            /\ last'.err # NoErr => coords' = coords /\ mem' = mem
       /\ last'.op = "setitem" =>
            \A n \in Bound \ {last'.self} : Coords(n)' = Coords(n)
      ]_vars

\* An arithmetic operation on u has returned a Vector bound to v that differs
\* from u, and u has the largest dimension and a non-zero last coordinate.
C2_Witness ==
    /\ last.op \in ArithOps /\ last.err = NoErr
    /\ last.self = "u" /\ last.to = "v"
    /\ Len(Coords("u")) = MaxLen
    /\ Coords("u")[MaxLen] # 0
    /\ Coords("u") # Coords("v")

\* C3: r = Vector(m) holds m's coordinates, compares equal to m and shares no
\* list with it, so that a later write to either leaves the other unchanged.
C3_CopyIndependent ==
    [][/\ last'.op = "init" =>
            \A r \in Names, m \in Names :
                \/ m \notin Bound
                \/ /\ last'.err = NoErr /\ last'.to = r
                   /\ Coords(r)' = Coords(m)
                   /\ m # r => /\ Coords(m)' = Coords(m)
                               /\ Coords(r)' = Coords(m)'
                               /\ coords'[r] # coords'[m]
                \/ ~Construct(r, PyVector(m))
       /\ last'.op = "setitem" =>
            \A n \in Bound \ {last'.self} :
                Coords(n)' = Coords(n) /\ coords'[n] # coords'[last'.self]
      ]_vars

\* u has just been built as Vector(v) from a non-zero Vector of the largest
\* dimension, and the two are equal.
C3_Witness ==
    /\ last.op = "init" /\ last.arg = "Vector" /\ last.err = NoErr
    /\ last.to = "u"
    /\ Bound = Names
    /\ Coords("u") = Coords("v")
    /\ Len(Coords("u")) = MaxLen
    /\ Coords("v")[MaxLen] # 0

\* res is the elementwise sum of s and t.
IsSum(res, s, t) ==
    /\ Len(res) = Len(s)
    /\ \A k \in 1..Len(s) : res[k] = s[k] + t[k]

\* C4: for operands of equal length, a + b has that length and coordinate j is
\* a[j] + b[j]; it is what b + a gives; and a plain list on the left of +
\* gives the same.
C4_Addition ==
    [][/\ last'.op = "add" =>
            \A o \in Vectors \cup Lists, r \in Names :
                \/ o.type = "Vector" /\ o.ref \notin Bound
                \/ Len(Coords(last'.self)) # Len(Items(o))
                \/ /\ last'.err = NoErr /\ last'.to = r
                   /\ IsSum(Coords(r)', Coords(last'.self), Items(o))
                   /\ Coords(r)' = VectorAdd(Items(o), Coords(last'.self)).items
                \/ ~Add(last'.self, o, r)
       /\ last'.op = "radd" =>
            \A o \in Lists, r \in Names :
                \/ Len(Coords(last'.self)) # Len(Items(o))
                \/ /\ last'.err = NoErr /\ last'.to = r
                   /\ IsSum(Coords(r)', Items(o), Coords(last'.self))
                   /\ Coords(r)' = VectorAdd(Coords(last'.self), Items(o)).items
                \/ ~RAdd(last'.self, o, r)
      ]_vars

\* A sum of the largest dimension with a non-zero last coordinate.
C4_Witness ==
    /\ last.op \in {"add", "radd"} /\ last.err = NoErr
    /\ Len(Coords(last.to)) = MaxLen
    /\ Coords(last.to)[MaxLen] # 0

\* C5: +, -, < and <= raise ValueError('dimensions must agree') exactly when
\* the operands' lengths differ, and then change nothing.
C5_DimensionMismatch ==
    [][/\ last'.op \in {"add", "sub"} =>
            \A o \in Vectors, r \in Names :
                \/ o.ref \notin Bound
                \/ /\ last'.err = ValueError <=>
                          Len(Coords(last'.self)) # Len(Items(o))
                   /\ last'.err = ValueError => coords' = coords /\ mem' = mem
                \/ ~(Add(last'.self, o, r) \/ Sub(last'.self, o, r))
       /\ last'.op \in {"lt", "le"} =>
            \A b \in Names :
                \/ b \notin Bound
                \/ /\ last'.err = ValueError <=>
                          Len(Coords(last'.self)) # Len(Coords(b))
                   /\ coords' = coords /\ mem' = mem
                \/ ~(Lt(last'.self, b) \/ Le(last'.self, b))
      ]_vars

\* A subtraction of Vectors of different lengths has been refused.
C5_Witness ==
    /\ last.op = "sub" /\ last.err = ValueError
    /\ Bound = Names
    /\ Len(Coords("u")) # Len(Coords("v"))

\* C6: an indexed read or write raises IndexError exactly when the index is
\* outside [-n, n - 1]; a failed write changes no coordinate.
C6_IndexError ==
    [][/\ last'.op = "getitem" =>
            \A j \in Indices :
                \/ last'.err.type = "IndexError" <=>
                       OutOfRange(Len(Coords(last'.self)), j)
                \/ ~GetItem(last'.self, j)
       /\ last'.op = "setitem" =>
            \A j \in Indices, x \in Val :
                \/ /\ last'.err.type = "IndexError" <=>
                          OutOfRange(Len(Coords(last'.self)), j)
                   /\ last'.err.type = "IndexError" => mem' = mem /\ coords' = coords
                \/ ~SetItem(last'.self, j, x)
      ]_vars

\* A write to a non-empty Vector has been refused.
C6_Witness ==
    /\ last.op = "setitem" /\ last.err.type = "IndexError"
    /\ Len(Coords(last.self)) = MaxLen

\* The demonstration: v = Vector(5); v[1] = 23; v[-1] = 45.
DemoVector ==
    ListSetItem(ListSetItem(VectorInit(PyInt(5)).items, 1, 23).val, 0 - 1, 45).val

\* C7: a write at a valid index j sets the coordinate at position
\* (j if j >= 0 else n + j) and no other, and a read at j or at that position
\* returns the value written; the demonstration ends in <0, 23, 0, 0, 45>.
C7_WriteSetsOneCoordinate ==
    /\ DemoVector = <<0, 23, 0, 0, 45>>
    /\ ListGetItem(DemoVector, 4) = [ok |-> TRUE, val |-> 45]
    /\ [][last'.op = "setitem" =>
            \A j \in Indices, x \in Val :
                \/ OutOfRange(Len(Coords(last'.self)), j)
                \/ LET n == Len(Coords(last'.self))
                       p == IF j >= 0 THEN j ELSE n + j
                       new == mem'[coords'[last'.self]]
                   IN  /\ last'.err = NoErr
                       /\ Len(new) = n
                       /\ \A k \in 0..(n - 1) :
                             new[k + 1] = IF k = p THEN x
                                          ELSE Coords(last'.self)[k + 1]
                       /\ ListGetItem(new, j) = [ok |-> TRUE, val |-> x]
                       /\ ListGetItem(new, p) = [ok |-> TRUE, val |-> x]
                \/ ~SetItem(last'.self, j, x)
         ]_vars

\* A write has left a Vector of the largest dimension with a non-zero last
\* coordinate after zeros.
C7_Witness ==
    /\ last.op = "setitem" /\ last.err = NoErr
    /\ Len(Coords(last.self)) = MaxLen
    /\ Coords(last.self)[MaxLen] # 0
    /\ \A k \in 1..(MaxLen - 1) : Coords(last.self)[k] = 0

\* C8: v * x and x * v with x neither a Vector nor a number raise an error of
\* class TypeError and change nothing.
C8_TypeErrorOnBadOperand ==
    [][last'.op \in {"mul", "rmul"} =>
            \A x \in NonNumeric, r \in Names :
                \/ /\ last'.err.type = "TypeError"
                   /\ coords' = coords /\ mem' = mem
                \/ ~(Mul(last'.self, x, r) \/ RMul(last'.self, x, r))
      ]_vars

\* What the claim calls a valid constructor argument.
ValidArg(d) == (d.type = "int" /\ d.num >= 0) \/ d.type \in {"list", "Vector"}

\* C9: Vector(d) raises TypeError('invalid parameter type') whenever d is
\* neither a non-negative int nor an iterable of numbers, and builds nothing.
C9_InvalidArgumentRaises ==
    [][last'.op = "init" =>
            \A r \in Names, d \in IntArgs \cup Lists \cup Vectors \cup NonIterable :
                \/ ValidArg(d)
                \/ /\ last'.err = TypeErrorInit
                   /\ coords' = coords /\ mem' = mem
                \/ ~Construct(r, d)
      ]_vars

\* res is the elementwise product of s and t up to the shorter of them.
IsProduct(res, s, t) ==
    /\ Len(res) = (IF Len(s) < Len(t) THEN Len(s) ELSE Len(t))
    /\ \A k \in 1..Len(res) : res[k] = s[k] * t[k]

\* C10: a * b raises nothing whatever the lengths, has the length of the
\* shorter operand and coordinate j equal to a[j] * b[j], and is what b * a
\* gives; v * s has v's length and coordinate j equal to v[j] * s.
C10_Multiplication ==
    [][last'.op = "mul" =>
          /\ \A b \in Names, r \in Names :
                \/ b \notin Bound
                \/ /\ last'.err = NoErr /\ last'.to = r
                   /\ IsProduct(Coords(r)', Coords(last'.self), Coords(b))
                   /\ Coords(r)' = VectorMul(Coords(b), PyVector(last'.self)).items
                \/ ~Mul(last'.self, PyVector(b), r)
          /\ \A s \in Val, r \in Names :
                \/ /\ last'.err = NoErr /\ last'.to = r
                   /\ Len(Coords(r)') = Len(Coords(last'.self))
                   /\ \A k \in 1..Len(Coords(last'.self)) :
                         Coords(r)'[k] = Coords(last'.self)[k] * s
                \/ ~Mul(last'.self, PyInt(s), r)
      ]_vars

\* A product of Vectors of different lengths, cut to the shorter, has returned
\* with no zero coordinate.
C10_Witness ==
    /\ last.op = "mul" /\ last.err = NoErr /\ last.arg = "Vector"
    /\ last.lens[1] # last.lens[2]
    /\ Len(Coords(last.to)) > 0
    /\ \A k \in 1..Len(Coords(last.to)) : Coords(last.to)[k] # 0

=============================================================================
